---- MODULE Spec2Model ----
(***************************************************************************)
(* A model of the diagnostics facility of jfern2011/abort:                 *)
(*   include/abort/abort.h  the guard macros ABORT_IF, ABORT, ABORT_IF_NOT *)
(*                          and ABORT_ON_ERRNO                             *)
(*   src/abort.cc           print_msg, get_ostream, set_message_size,      *)
(*                          set_ostream and the process-wide state         *)
(*   test/abort_ut.cc       the host routines that use the macros          *)
(*                                                                         *)
(* Text is a sequence of tokens.  A token is one character of a user       *)
(* message ("h", "e", ...) or one literal piece that the code writes as a  *)
(* unit ("abort[", a file name, a stringified macro argument).  Only user  *)
(* messages are ever cut, so only they are kept character by character.    *)
(***************************************************************************)
EXTENDS Integers, Sequences, FiniteSets, TLC

\* --------------------------------------------------------------- bounds
\* free host code starts no routine and no guard once this many lines are out
MaxLines == 2
\* routine activations that may be open at once in free host code
MaxNest == 2
\* the largest size the host passes to set_message_size, besides 1024
MaxLimit == 7
\* guard evaluations the threads of a threaded host start, all together
MaxThreadEvals == 3

\* ------------------------------------------------------ program constants
\* std::string buffer(1024, '\0')
DefaultBufferSize == 1024
\* the recursion limit of the test routines (depth < 5, depth >= 5)
DepthLimit == 5
\* ABORT_ON_ERRNO fires on this value
ErrnoSentinel == -1
\* the error code the test's sys_call() sets
TestErrno == 5

\* ----------------------------------------------------------------- text
NUL == "NUL"
EOL == "\n"

Min(a, b) == IF a <= b THEN a ELSE b

\* n copies of the token c
Fill(n, c) == [i \in 1..n |-> c]

DigitChar(d) == <<"0", "1", "2", "3", "4", "5", "6", "7", "8", "9">>[d + 1]

RECURSIVE NatDigits(_)
NatDigits(n) == IF n < 10 THEN <<DigitChar(n)>>
                ELSE NatDigits(n \div 10) \o <<DigitChar(n % 10)>>

\* the decimal rendering of an int, as operator<< and %d produce it
Decimal(n) == IF n < 0 THEN <<"-">> \o NatDigits(0 - n) ELSE NatDigits(n)

\* the text before the first NUL: what a reader of a C string sees
CStr(s) ==
    LET z == {i \in 1..Len(s) : s[i] = NUL}
    IN  IF z = {} THEN s
        ELSE SubSeq(s, 1, (CHOOSE i \in z : \A j \in z : i <= j) - 1)

\* A printf format is a sequence of pieces: literal text, or a conversion
\* that consumes the next argument.
Lit(t) == [conv |-> "lit", text |-> t]
ConvD == [conv |-> "d", text |-> <<>>]
ConvS == [conv |-> "s", text |-> <<>>]

RECURSIVE Subst(_, _)
Subst(fmt, args) ==
    IF fmt = <<>> THEN <<>>
    ELSE IF Head(fmt).conv = "lit" THEN Head(fmt).text \o Subst(Tail(fmt), args)
    ELSE IF Head(fmt).conv = "d" THEN Decimal(Head(args)) \o Subst(Tail(fmt), Tail(args))
    ELSE Head(args) \o Subst(Tail(fmt), Tail(args))

\* std::snprintf(&s.at(0), n, ...) with the substituted text `text`: at most
\* n-1 characters are stored, then a terminating NUL; the rest of s is kept.
snprintf(s, n, text) ==
    IF n = 0 THEN s
    ELSE LET k == Min(Len(text), n - 1)
         IN  [i \in 1..Len(s) |->
                 IF i <= k THEN text[i] ELSE IF i = k + 1 THEN NUL ELSE s[i]]

\* ---------------------------------------------------------------- state
VARIABLES
    frame_cnt,  \* internal::frame_cnt
    buffer,     \* internal::buffer
    stream,     \* internal::stream: NullStream or the stream it points to
    out,        \* what each stream has received, in order
    flushed,    \* how much of it each stream has flushed
    errno,      \* the C library's errno
    stack,      \* the host's call stack: routine activations and the guard
                \* evaluations (macro expansions) in progress inside them
    result,     \* what the routine that returned last returned
    limit,      \* the size last given to set_message_size, NoLimit before
    fireLog,    \* one record per firing, in firing order
    thr         \* the host's threads: for each its guard evaluations in
                \* progress, and whether evaluations of two threads overlapped

vars == <<frame_cnt, buffer, stream, out, flushed, errno, stack, result,
          limit, fireLog, thr>>

\* ---------------------------------------------------------------- sinks
NullStream == "null"
\* the stream get_ostream() makes over std::cout.rdbuf()
StdoutStream == "stdout"
\* the streams the host owns (the fixture's stream_)
HostStreams == {"s1", "s2"}
Streams == {StdoutStream} \cup HostStreams

\* std::ostream& get_ostream(): a null internal::stream is first replaced by
\* a stream over standard output; the stream pointed to is returned.  The
\* value is both the new internal::stream and the stream returned.
\* the mutant always hands out standard output
get_ostream_cout(st) == StdoutStream

get_ostream(st) == IF st = NullStream THEN StdoutStream ELSE st

\* get_ostream() << text, on io = [stream, out, flushed]
\* the mutant puts the new text in front of what the stream holds
Insert_front(io, text) ==
    LET s == get_ostream(io.stream)
    IN  [io EXCEPT !.stream = s, !.out = [@ EXCEPT ![s] = text \o @]]

Insert(io, text) ==
    LET s == get_ostream(io.stream)
    IN  [io EXCEPT !.stream = s, !.out = [@ EXCEPT ![s] = @ \o text]]

\* << std::endl: a newline, then a flush
Endl(io) ==
    LET w == Insert(io, <<EOL>>)
    IN  [w EXCEPT !.flushed = [@ EXCEPT ![w.stream] = Len(w.out[w.stream])]]

\* the part of a line both print_msg and errno_msg start with
Header(cnt, file, line, func) ==
    <<"abort[">> \o Decimal(cnt) \o <<"]: ", file, ":">> \o Decimal(line)
        \o <<": In '", func, "':">>

\* the default body: " select(cond, ret);", the condition and its ", " left
\* out when the condition text is empty
DefaultBody(select, cond, ret) ==
    <<" ", select, "(">> \o cond \o (IF cond = <<>> THEN <<>> ELSE <<", ">>)
        \o ret \o <<");">>

\* void print_msg(select, num_args, cond, ret, frame_cnt, file, line, func, msg)
\* the mutant chooses the body by the message instead of by num_args
print_msg_bymsg(io, select, num_args, cond, ret, cnt, file, line, func, msg) ==
    LET h == Insert(io, Header(cnt, file, line, func))
    IN  IF CStr(msg) = <<" ">>
        THEN Endl(Insert(h, DefaultBody(select, cond, ret)))
        ELSE Endl(Insert(h, msg))

print_msg(io, select, num_args, cond, ret, cnt, file, line, func, msg) ==
    LET h == Insert(io, Header(cnt, file, line, func))
    IN  IF num_args = 0
        THEN Endl(Insert(h, DefaultBody(select, cond, ret)))
        ELSE Endl(Insert(h, msg))

\* the description of an error code, as the C library gives it
StrError(e) == <<"strerror(">> \o Decimal(e) \o <<")">>

\* void errno_msg(select, expr, ret, frame_cnt, file, line, func): declared in
\* abort.h and used by ABORT_ON_ERRNO; its body is not in the sources.  One
\* line: the header, the guard as written, the description of errno.
errno_msg(io, e, select, expr, ret, cnt, file, line, func) ==
    LET h == Insert(io, Header(cnt, file, line, func))
    IN  Endl(Insert(h, DefaultBody(select, expr, ret) \o <<" ">> \o StrError(e)))

\* void set_message_size(std::size_t size): internal::buffer.resize(size+2);
\* resize keeps the leading characters and pads with '\0'
set_message_size(buf, size) ==
    [i \in 1..(size + 2) |-> IF i <= Len(buf) THEN buf[i] ELSE NUL]

\* void set_ostream(std::shared_ptr<std::ostream> os)
set_ostream(os) == os

\* std::string message = buffer;
\* if (!message.empty()) std::snprintf(&message.at(0), message.size(), " " fmt, args...)
\* va is the macro's __VA_ARGS__: <<>> or <<format, arguments>>
Message(buf, va) ==
    IF buf = <<>> THEN buf
    ELSE snprintf(buf, Len(buf),
                  <<" ">> \o (IF va = <<>> THEN <<>> ELSE Subst(va[1], va[2])))

\* ABORT_N_ARGS(...): the number of macro arguments after ret
get_abort_nargs(va) == IF va = <<>> THEN 0 ELSE 1 + Len(va[2])

\* ------------------------------------------------------ the guard macros
Kinds == {"ABORT_IF", "ABORT_IF_NOT", "ABORT", "ABORT_ON_ERRNO"}

\* frame_cnt++ on entry
\* the mutant forgets the increment
EnterCount_none(c) == c

EnterCount(c) == c + 1

\* frame_cnt-- in the branch that fired, after the line is written
\* the mutant leaves the decrement until after return (ret)
ExitFired_late(c) == c

ExitFired(c) == c - 1

\* frame_cnt-- in the else branch
\* the mutant has no else branch
ExitNotFired_none(c) == c

ExitNotFired(c) == c - 1

\* the frame_cnt argument of print_msg and errno_msg: frame_cnt-1
\* the mutant passes frame_cnt
CapturedDepth_raw(c) == c

CapturedDepth(c) == c - 1

\* if (cond), if (!(cond)), no test at all, if ((expr) == -1), on the int the
\* condition evaluates to
\* the mutant swaps the polarity of ABORT_IF_NOT
Fires_swapped(kind, c) ==
    CASE kind = "ABORT_IF" -> c # 0
      [] kind = "ABORT_IF_NOT" -> c # 0
      [] kind = "ABORT" -> TRUE
      [] kind = "ABORT_ON_ERRNO" -> c = ErrnoSentinel

\* the mutant fires ABORT_ON_ERRNO on every negative value
Fires_negative(kind, c) ==
    CASE kind = "ABORT_IF" -> c # 0
      [] kind = "ABORT_IF_NOT" -> c = 0
      [] kind = "ABORT" -> TRUE
      [] kind = "ABORT_ON_ERRNO" -> c < 0

Fires(kind, c) ==
    CASE kind = "ABORT_IF" -> c # 0
      [] kind = "ABORT_IF_NOT" -> c = 0
      [] kind = "ABORT" -> TRUE
      [] kind = "ABORT_ON_ERRNO" -> c = ErrnoSentinel

\* How many times the branch that fires evaluates what the host passed.
\* cond: once, in if (cond) / if (!(cond)) / if ((expr) == -1); #cond is text;
\* ABORT has no condition.  ret: once, in return (ret); #ret is text.  Each
\* argument after the format: once as an argument of std::snprintf, unless
\* the buffer is empty, and once more as an argument of get_abort_nargs,
\* which ABORT_N_ARGS(__VA_ARGS__) calls with all of them; ABORT_ON_ERRNO
\* takes none.
MacroEvals(kind, buf, va) ==
    [cond |-> IF kind = "ABORT" THEN 0 ELSE 1,
     ret |-> 1,
     args |-> IF kind = "ABORT_ON_ERRNO" \/ va = <<>> THEN 0
              ELSE (IF buf = <<>> THEN 0 ELSE 1) + 1]

\* What the branch that fired writes: ABORT_ON_ERRNO calls errno_msg, the
\* others format the message and call print_msg.  g is the macro invocation as
\* written, cnt is frame_cnt at that point, e is errno.
Emit(io, buf, e, g, cnt) ==
    IF g.kind = "ABORT_ON_ERRNO"
    THEN errno_msg(io, e, g.kind, g.cond, g.ret, CapturedDepth(cnt),
                   g.file, g.line, g.func)
    ELSE print_msg(io, g.kind, get_abort_nargs(g.va), g.cond, g.ret,
                   CapturedDepth(cnt), g.file, g.line, g.func,
                   Message(buf, g.va))

\* ------------------------------------------------- expressions of the host
\* An expression the host passes to a macro: a value (with the errno it sets,
\* 0 for none), or a call of a routine, compared with eq when cmp.
LitX(v) == [op |-> "lit", v |-> v, err |-> 0, rt |-> "", arg |-> 0,
            cmp |-> FALSE, eq |-> 0]
SysX(v, e) == [LitX(v) EXCEPT !.err = e]
CallX(rt, arg) == [LitX(0) EXCEPT !.op = "call", !.rt = rt, !.arg = arg]
CallEqX(rt, arg, eq) == [CallX(rt, arg) EXCEPT !.cmp = TRUE, !.eq = eq]

\* the value of expression x, r being what its call returned
Value(x, r) ==
    IF x.op = "lit" THEN x.v
    ELSE IF x.cmp THEN (IF r = x.eq THEN 1 ELSE 0) ELSE r

\* a macro invocation as the host wrote it
G(kind, cond, ret, va, file, line, func, cx, rx) ==
    [kind |-> kind, cond |-> cond, ret |-> ret, va |-> va, file |-> file,
     line |-> line, func |-> func, cx |-> cx, rx |-> rx]

FmtHello == <<Lit(<<"h", "e", "l", "l", "o">>)>>
FmtHi == <<Lit(<<"h", "i">>)>>
FmtDepth == <<Lit(<<"d", "e", "p", "t", "h", " ", "=", " ">>), ConvD>>
\* a message of n characters that differ with their position
FmtLong(n) == <<Lit([i \in 1..n |-> <<"a", "b", "c">>[(i % 3) + 1]])>>

TestFile == "abort_ut.cc"
HostFile == "host.cc"

\* int AbortTest::abort_if_not(int depth)
abort_if_not(depth) ==
    << G("ABORT_IF_NOT", <<"depth < 5">>, <<"-1">>, <<FmtDepth, <<depth>>>>,
         TestFile, 99, "abort_if_not",
         LitX(IF depth < DepthLimit THEN 1 ELSE 0), LitX(-1)),
       G("ABORT_IF_NOT", <<"abort_if_not(depth+1) == 0">>, <<"-1">>, <<>>,
         TestFile, 100, "abort_if_not",
         CallEqX("abort_if_not", depth + 1, 0), LitX(-1)) >>

\* int AbortTest::abort_if(int depth)
abort_if(depth) ==
    << G("ABORT_IF", <<"depth >= 5">>, <<"-1">>, <<FmtDepth, <<depth>>>>,
         TestFile, 127, "abort_if",
         LitX(IF depth >= DepthLimit THEN 1 ELSE 0), LitX(-1)),
       G("ABORT_IF", <<"abort_if(depth+1) == -1">>, <<"-1">>, <<>>,
         TestFile, 128, "abort_if",
         CallEqX("abort_if", depth + 1, -1), LitX(-1)) >>

\* int AbortTest::abort(int depth): one ABORT or the other
abort(depth) ==
    IF depth >= DepthLimit
    THEN << G("ABORT", <<>>, <<"-1">>, <<FmtDepth, <<depth>>>>,
              TestFile, 112, "abort", LitX(1), LitX(-1)) >>
    ELSE << G("ABORT", <<>>, <<"abort(depth+1)">>, <<>>,
              TestFile, 115, "abort", LitX(1), CallX("abort", depth + 1)) >>

\* auto y = []() { ABORT(0, "hello"); };
y_hello ==
    << G("ABORT", <<>>, <<"0">>, <<FmtHello, <<>>>>, TestFile, 224, "y",
         LitX(1), LitX(0)) >>

\* auto y = [&]() { ABORT_ON_ERRNO(sys_call(), 0); };
y_errno ==
    << G("ABORT_ON_ERRNO", <<"sys_call()">>, <<"0">>, <<>>, TestFile, 257, "y",
         SysX(-1, TestErrno), LitX(0)) >>

ChainRoutines == {"abort_if", "abort_if_not"}

\* the statements of a test routine, in order
Body(rt, arg) ==
    CASE rt = "abort_if_not" -> abort_if_not(arg)
      [] rt = "abort_if" -> abort_if(arg)
      [] rt = "abort" -> abort(arg)
      [] rt = "y_hello" -> y_hello
      [] rt = "y_errno" -> y_errno

\* Free host code.  Routine "g" may evaluate any of these guards, in any
\* order, and return 0 at any point; its conditions, wrapped expressions and
\* return expressions may call "g" again.
GuardsOfG ==
    {G("ABORT_IF", <<"c">>, <<"-1">>, <<>>, HostFile, 10, "g", cx, LitX(-1)) :
        cx \in {LitX(0), LitX(1), CallX("g", 0)}}
    \cup
    {G("ABORT_IF_NOT", <<"c">>, <<"-1">>, <<>>, HostFile, 20, "g", cx, LitX(-1)) :
        cx \in {LitX(0), LitX(1), CallX("g", 0)}}
    \cup
    {G("ABORT", <<>>, <<"r">>, <<>>, HostFile, 30, "g", LitX(1), rx) :
        rx \in {LitX(-1), CallX("g", 0)}}
    \cup
    {G("ABORT_ON_ERRNO", <<"e">>, <<"-1">>, <<>>, HostFile, 40, "g", cx, LitX(-1)) :
        cx \in {SysX(-1, 2), SysX(-2, 2), SysX(0, 0), CallX("g", 0)}}

\* Routine "h" is free host code that also reconfigures the sink: its guards
\* carry no message and its conditions may call "h" again.
GuardsOfH ==
    {G("ABORT_IF", <<"c">>, <<"-1">>, <<>>, HostFile, 80, "h", cx, LitX(-1)) :
        cx \in {LitX(0), LitX(1), CallEqX("h", 0, -1)}}

\* Routine "m" evaluates one guard with a message of the host's choice.
LongLens == (DefaultBufferSize - 3)..(DefaultBufferSize + 1)
VaOfM ==
    {<<>>, <<FmtHello, <<>>>>, <<FmtHi, <<>>>>, <<<<>>, <<>>>>}
    \cup {<<FmtDepth, <<d>>>> : d \in {5, 12}}
    \cup {<<FmtLong(n), <<>>>> : n \in LongLens}
GuardsOfM ==
    {G("ABORT", <<>>, <<"0">>, va, HostFile, 50, "m", LitX(1), LitX(0)) :
        va \in VaOfM}
    \cup
    {G("ABORT_IF", <<"c">>, <<"0">>, va, HostFile, 60, "m", LitX(1), LitX(0)) :
        va \in {<<>>, <<FmtHello, <<>>>>}}
    \cup
    {G("ABORT_IF_NOT", <<"c">>, <<"0">>, va, HostFile, 70, "m", LitX(0), LitX(0)) :
        va \in {<<>>, <<FmtHi, <<>>>>}}

\* Routine "k" has a local int i = 0 (the frame's arg) and passes i++ as the
\* argument of "i = %d" to the guards it evaluates.
FmtI == <<Lit(<<"i", " ", "=", " ">>), ConvD>>
GuardsOfK(i) ==
    {G("ABORT_IF", <<"c">>, <<"0">>, <<FmtI, <<i>>>>, HostFile, 95, "k", cx, LitX(0)) :
        cx \in {LitX(0), LitX(1)}}
    \cup
    {G("ABORT_IF_NOT", <<"c">>, <<"0">>, <<FmtI, <<i>>>>, HostFile, 96, "k", cx, LitX(0)) :
        cx \in {LitX(0), LitX(1)}}
    \cup
    {G("ABORT", <<>>, <<"0">>, <<FmtI, <<i>>>>, HostFile, 97, "k", LitX(1), LitX(0))}

\* the activation c of the routine after n evaluations of the arguments of
\* its guard g: each evaluation of i++ adds one to i
PostIncrement(g, c, n) ==
    IF g.func = "k" THEN [c EXCEPT !.arg = @ + n] ELSE c

FreeRoutines == {"g", "h", "m", "k"}

\* ---------------------------------------------------------------- frames
CallFrame(rt, arg) == [t |-> "call", rt |-> rt, arg |-> arg, pc |-> 1]

\* A guard evaluation in progress.  phase "cond": entered, the condition not
\* yet decided; phase "ret": fired and exited, the return expression not yet
\* evaluated.  st: "eval" before the expression's call, "wait" during it,
\* "have" after it, val being what the call returned.  pre and act record
\* frame_cnt and the number of evaluations under way when this one entered.
GuardFrame(g, pre, act) ==
    [t |-> "guard", g |-> g, phase |-> "cond", st |-> "eval", val |-> 0,
     cv |-> 0, pre |-> pre, act |-> act]

Top == stack[Len(stack)]

\* guard evaluations entered and not yet exited
Active(stk) ==
    Cardinality({i \in 1..Len(stk) : stk[i].t = "guard" /\ stk[i].phase = "cond"})

NumCalls(stk) == Cardinality({i \in 1..Len(stk) : stk[i].t = "call"})

\* the value a routine returns reaches the expression that called it
Deliver(stk, v) ==
    IF stk = <<>> THEN stk
    ELSE [stk EXCEPT ![Len(stk)].val = v, ![Len(stk)].st = "have"]

\* the expression a guard frame is evaluating
Expr(f) == IF f.phase = "cond" THEN f.g.cx ELSE f.g.rx

\* its value is at hand
Ready(f) == (Expr(f).op = "lit" /\ f.st = "eval") \/ f.st = "have"

\* free host code is running: the host may configure the library here
HostCode ==
    IF stack = <<>> THEN TRUE ELSE Top.t = "call" /\ Top.rt \in FreeRoutines

NoLimit == 0 - 1

\* the stream a line written now goes to
Target == IF stream = NullStream THEN StdoutStream ELSE stream

\* the threads of a threaded host
Threads == {"t1", "t2"}

NoThreads == [th |-> [t \in Threads |-> [stk |-> <<>>, n |-> 0]], mixed |-> FALSE]

Init ==
    /\ thr = NoThreads
    /\ frame_cnt = 0
    /\ buffer = Fill(DefaultBufferSize, NUL)
    /\ stream = NullStream
    /\ out = [s \in Streams |-> <<>>]
    /\ flushed = [s \in Streams |-> 0]
    /\ errno = 0
    /\ stack = <<>>
    /\ result = 0
    /\ limit = NoLimit
    /\ fireLog = <<>>

\* --------------------------------------------------------------- actions
\* the test body, or any other host code, calls a routine
CallTop(rt, arg) ==
    /\ stack = <<>>
    /\ Len(fireLog) < MaxLines
    /\ stack' = <<CallFrame(rt, arg)>>
    /\ UNCHANGED <<thr, frame_cnt, buffer, stream, out, flushed, errno, result,
                   limit, fireLog>>

\* a condition, wrapped expression or return expression calls a routine
CallNested ==
    /\ stack # <<>>
    /\ Top.t = "guard"
    /\ Top.st = "eval"
    /\ Expr(Top).op = "call"
    /\ Expr(Top).rt \in FreeRoutines =>
          NumCalls(stack) < MaxNest /\ Len(fireLog) < MaxLines
    /\ stack' = Append([stack EXCEPT ![Len(stack)].st = "wait"],
                       CallFrame(Expr(Top).rt, Expr(Top).arg))
    /\ UNCHANGED <<thr, frame_cnt, buffer, stream, out, flushed, errno, result,
                   limit, fireLog>>

\* the guards a routine activation may evaluate next
NextGuards(c) ==
    IF c.rt = "g" THEN GuardsOfG
    ELSE IF c.rt = "h" THEN GuardsOfH
    ELSE IF c.rt = "m" THEN GuardsOfM
    ELSE IF c.rt = "k" THEN GuardsOfK(c.arg)
    ELSE IF c.pc <= Len(Body(c.rt, c.arg)) THEN {Body(c.rt, c.arg)[c.pc]}
    ELSE {}

\* the guards the running routine may evaluate now
GuardsNow ==
    IF stack = <<>> THEN {}
    ELSE IF Top.t # "call" THEN {}
    ELSE IF Top.rt \in FreeRoutines /\ Len(fireLog) >= MaxLines THEN {}
    ELSE NextGuards(Top)

\* The routine goes on with its next statement.  Free host code has no fixed
\* statements: its position stays open.
Advance(c) == IF c.rt \in FreeRoutines THEN c ELSE [c EXCEPT !.pc = @ + 1]

\* a routine reaches a guard macro: frame_cnt++
Enter(g) ==
    /\ g \in GuardsNow
    /\ frame_cnt' = EnterCount(frame_cnt)
    /\ stack' = Append(stack, GuardFrame(g, frame_cnt, Active(stack)))
    /\ UNCHANGED <<thr, buffer, stream, out, flushed, errno, result, limit,
                   fireLog>>

\* errno after the evaluation of expression x
ErrnoAfter(x) == IF x.op = "lit" /\ x.err # 0 THEN x.err ELSE errno

\* the condition holds: the line is written, frame_cnt--, and what is left of
\* the macro is return (ret)
Fire ==
    /\ stack # <<>>
    /\ Top.t = "guard"
    /\ Top.phase = "cond"
    /\ Ready(Top)
    /\ LET f == Top
           cv == Value(f.g.cx, f.val)
           io == Emit([stream |-> stream, out |-> out, flushed |-> flushed],
                      buffer, ErrnoAfter(f.g.cx), f.g, frame_cnt)
       IN  /\ Fires(f.g.kind, cv)
           /\ errno' = ErrnoAfter(f.g.cx)
           /\ stream' = io.stream
           /\ out' = io.out
           /\ flushed' = io.flushed
           /\ frame_cnt' = ExitFired(frame_cnt)
           /\ stack' = [stack EXCEPT
                  ![Len(stack)] = [f EXCEPT !.phase = "ret", !.st = "eval",
                                            !.val = 0, !.cv = cv],
                  ![Len(stack) - 1] = PostIncrement(f.g, @,
                      MacroEvals(f.g.kind, buffer, f.g.va).args)]
           /\ fireLog' = Append(fireLog,
                  [g |-> f.g, pre |-> f.pre, act |-> f.act, to |-> Target,
                   limit |-> limit, errno |-> ErrnoAfter(f.g.cx),
                   evals |-> MacroEvals(f.g.kind, buffer, f.g.va)])
    /\ UNCHANGED <<thr, buffer, result, limit>>

\* the condition does not hold: frame_cnt--, and the routine goes on with the
\* statement after the macro
Pass ==
    /\ stack # <<>>
    /\ Top.t = "guard"
    /\ Top.phase = "cond"
    /\ Ready(Top)
    /\ LET f == Top
           cv == Value(f.g.cx, f.val)
           c == stack[Len(stack) - 1]
       IN  /\ ~Fires(f.g.kind, cv)
           /\ errno' = ErrnoAfter(f.g.cx)
           /\ frame_cnt' = ExitNotFired(frame_cnt)
           /\ stack' = [SubSeq(stack, 1, Len(stack) - 1)
                           EXCEPT ![Len(stack) - 1] = Advance(c)]
    /\ UNCHANGED <<thr, buffer, stream, out, flushed, result, limit, fireLog>>

\* return (ret): the routine the macro stands in returns the value of ret
RetDone ==
    /\ stack # <<>>
    /\ Top.t = "guard"
    /\ Top.phase = "ret"
    /\ Ready(Top)
    /\ LET f == Top
           rv == Value(f.g.rx, f.val)
           c == stack[Len(stack) - 1]
       IN  /\ stack' = Deliver(SubSeq(stack, 1, Len(stack) - 2), rv)
           /\ result' = rv
    /\ UNCHANGED <<thr, frame_cnt, buffer, stream, out, flushed, errno, limit, fireLog>>

\* free host code returns 0 without a guard having fired
Return ==
    /\ stack # <<>>
    /\ Top.t = "call"
    /\ Top.rt \in FreeRoutines
    /\ stack' = Deliver(SubSeq(stack, 1, Len(stack) - 1), 0)
    /\ result' = 0
    /\ UNCHANGED <<thr, frame_cnt, buffer, stream, out, flushed, errno, limit, fireLog>>

\* diagnostics::set_ostream(os)
SetOstream(os) ==
    /\ HostCode
    /\ stream' = set_ostream(os)
    /\ UNCHANGED <<thr, frame_cnt, buffer, out, flushed, errno, stack, result,
                   limit, fireLog>>

\* diagnostics::set_message_size(size)
SetMessageSize(size) ==
    /\ HostCode
    /\ buffer' = set_message_size(buffer, size)
    /\ limit' = size
    /\ UNCHANGED <<thr, frame_cnt, stream, out, flushed, errno, stack, result,
                   fireLog>>

\* diagnostics::get_ostream(), called by the host
GetOstream ==
    /\ HostCode
    /\ stream' = get_ostream(stream)
    /\ UNCHANGED <<thr, frame_cnt, buffer, out, flushed, errno, stack, result,
                   limit, fireLog>>

\* ---------------------------------------------------------------- threads
\* Two threads of the host evaluate guards with no exclusion between them.
\* frame_cnt is a plain int: frame_cnt++ and frame_cnt-- are a load and a
\* store, and the steps of the threads interleave in any order.  A thread's
\* evaluations in progress are the frames of its stk: pc is the macro's
\* position, reg the value loaded, own the thread's nesting depth at entry.
WorkerGuard ==
    G("ABORT_IF", <<"c">>, <<"-1">>, <<>>, HostFile, 90, "w", LitX(1), LitX(-1))

ThreadTop(t) == thr.th[t].stk[Len(thr.th[t].stk)]

\* thread t is at position pc of a guard evaluation
At(t, pc) ==
    IF thr.th[t].stk = <<>> THEN FALSE ELSE ThreadTop(t).pc = pc

\* thread t moves the evaluation it is in to position pc, reg loaded with r
Move(t, pc, r) ==
    [thr EXCEPT !.th[t].stk[Len(thr.th[t].stk)] =
                    [ThreadTop(t) EXCEPT !.pc = pc, !.reg = r]]

\* the guard evaluations the two threads have started so far
Started == thr.th["t1"].n + thr.th["t2"].n

\* thread t reaches a guard macro, in a routine it calls itself or in one the
\* condition of the guard it is evaluating calls
TBegin(t) ==
    /\ thr.th[t].stk = <<>> \/ At(t, "cond")
    /\ Started < MaxThreadEvals
    /\ thr' = [thr EXCEPT
                  !.th[t].stk = Append(@, [pc |-> "inc_ld", reg |-> 0,
                                           own |-> Len(@), fired |-> FALSE]),
                  !.th[t].n = @ + 1,
                  !.mixed = @ \/ \E u \in Threads \ {t} : thr.th[u].stk # <<>>]
    /\ UNCHANGED <<frame_cnt, buffer, stream, out, flushed, errno, stack,
                   result, limit, fireLog>>

\* frame_cnt++, the load
TLoadInc(t) ==
    /\ At(t, "inc_ld")
    /\ thr' = Move(t, "inc_st", frame_cnt)
    /\ UNCHANGED <<frame_cnt, buffer, stream, out, flushed, errno, stack,
                   result, limit, fireLog>>

\* frame_cnt++, the store
TStoreInc(t) ==
    /\ At(t, "inc_st")
    /\ frame_cnt' = EnterCount(ThreadTop(t).reg)
    /\ thr' = Move(t, "cond", 0)
    /\ UNCHANGED <<buffer, stream, out, flushed, errno, stack, result, limit,
                   fireLog>>

\* the condition holds: the line is written with frame_cnt-1 as read now
TFire(t) ==
    /\ At(t, "cond")
    /\ LET io == Emit([stream |-> stream, out |-> out, flushed |-> flushed],
                      buffer, errno, WorkerGuard, frame_cnt)
       IN  /\ stream' = io.stream
           /\ out' = io.out
           /\ flushed' = io.flushed
    /\ fireLog' = Append(fireLog,
           [g |-> WorkerGuard, pre |-> frame_cnt - 1, act |-> ThreadTop(t).own,
            to |-> Target, limit |-> limit, errno |-> errno, by |-> t])
    /\ thr' = [Move(t, "dec_ld", 0) EXCEPT
                  !.th[t].stk[Len(thr.th[t].stk)].fired = TRUE]
    /\ UNCHANGED <<frame_cnt, buffer, errno, stack, result, limit>>

\* the condition does not hold
TPass(t) ==
    /\ At(t, "cond")
    /\ thr' = Move(t, "dec_ld", 0)
    /\ UNCHANGED <<frame_cnt, buffer, stream, out, flushed, errno, stack,
                   result, limit, fireLog>>

\* frame_cnt--, the load
TLoadDec(t) ==
    /\ At(t, "dec_ld")
    /\ thr' = Move(t, "dec_st", frame_cnt)
    /\ UNCHANGED <<frame_cnt, buffer, stream, out, flushed, errno, stack,
                   result, limit, fireLog>>

\* frame_cnt--, the store; the evaluation is over and the routine returns or
\* goes on
TStoreDec(t) ==
    /\ At(t, "dec_st")
    /\ frame_cnt' = IF ThreadTop(t).fired THEN ExitFired(ThreadTop(t).reg)
                    ELSE ExitNotFired(ThreadTop(t).reg)
    /\ thr' = [thr EXCEPT !.th[t].stk = SubSeq(@, 1, Len(@) - 1)]
    /\ UNCHANGED <<buffer, stream, out, flushed, errno, stack, result, limit,
                   fireLog>>

\* ------------------------------------------------------- specifications
\* Any host: free routines that nest guards in conditions, wrapped
\* expressions and return expressions, and the errno routine of the tests.
Next ==
    \/ \E rt \in {"g", "y_errno"} : CallTop(rt, 0)
    \/ CallNested
    \/ \E g \in GuardsNow : Enter(g)
    \/ Fire
    \/ Pass
    \/ RetDone
    \/ Return

Spec == Init /\ [][Next]_vars

\* A host that redirects the output between and inside its guard evaluations.
NextSink ==
    \/ CallTop("h", 0)
    \/ CallNested
    \/ \E g \in GuardsNow : Enter(g)
    \/ Fire
    \/ Pass
    \/ RetDone
    \/ Return
    \/ \E os \in HostStreams \cup {NullStream} : SetOstream(os)
    \/ GetOstream

SpecSink == Init /\ [][NextSink]_vars

\* One recursion of the tests, started at any depth.
NextChain ==
    \/ \E rt \in ChainRoutines, d \in 0..DepthLimit :
          fireLog = <<>> /\ CallTop(rt, d)
    \/ CallNested
    \/ \E g \in GuardsNow : Enter(g)
    \/ Fire
    \/ Pass
    \/ RetDone

SpecChain == Init /\ [][NextChain]_vars

\* A host that only formats: it sets size limits, then has routine "m" or the
\* test's lambda write one message.
NextFmt ==
    \/ \E rt \in {"m", "y_hello"} : fireLog = <<>> /\ CallTop(rt, 0)
    \/ \E g \in GuardsNow : Enter(g)
    \/ Fire
    \/ RetDone
    \/ Return
    \/ \E size \in 0..MaxLimit \cup {DefaultBufferSize} : SetMessageSize(size)

SpecFmt == Init /\ [][NextFmt]_vars

\* A host whose return expressions call routines that evaluate guards: the
\* ABORT recursion of the tests started at any depth, or free routine "g".
NextRet ==
    \/ \E d \in 0..DepthLimit : fireLog = <<>> /\ CallTop("abort", d)
    \/ fireLog = <<>> /\ CallTop("g", 0)
    \/ CallNested
    \/ \E g \in GuardsNow : Enter(g)
    \/ Fire
    \/ Pass
    \/ RetDone
    \/ Return

SpecRet == Init /\ [][NextRet]_vars

\* A host whose format arguments have a side effect: routine "k", under any
\* size limit.
NextArgs ==
    \/ fireLog = <<>> /\ CallTop("k", 0)
    \/ \E g \in GuardsNow : Enter(g)
    \/ Fire
    \/ Pass
    \/ RetDone
    \/ Return
    \/ \E size \in 0..MaxLimit \cup {DefaultBufferSize} : SetMessageSize(size)

SpecArgs == Init /\ [][NextArgs]_vars

\* A threaded host: each thread evaluates guards, nested or in a row.
NextThreads ==
    \E t \in Threads :
        \/ TBegin(t)
        \/ TLoadInc(t)
        \/ TStoreInc(t)
        \/ TFire(t)
        \/ TPass(t)
        \/ TLoadDec(t)
        \/ TStoreDec(t)

SpecThreads == Init /\ [][NextThreads]_vars

\* ------------------------------------------------- reading a sink back
\* where the lines of text t end
EolPos(t) == {i \in 1..Len(t) : t[i] = EOL}
NumLines(t) == Cardinality(EolPos(t))
LineEnd(t, k) ==
    CHOOSE i \in EolPos(t) : Cardinality({j \in EolPos(t) : j <= i}) = k
\* the k-th line of t, without its newline
Line(t, k) ==
    SubSeq(t, IF k = 1 THEN 1 ELSE LineEnd(t, k - 1) + 1, LineEnd(t, k) - 1)

\* the first place token c stands at in l, 0 when it does not occur
Find(l, c) ==
    LET at == {i \in 1..Len(l) : l[i] = c}
    IN  IF at = {} THEN 0 ELSE CHOOSE i \in at : \A j \in at : i <= j

\* the depth between "abort[" and "]: "
DepthText(l) == SubSeq(l, 2, Find(l, "]: ") - 1)
\* what follows "In '<routine>':"
BodyOf(l) == SubSeq(l, Find(l, "':") + 1, Len(l))
\* the user message of a body: what follows the separating space
UserSegment(b) == SubSeq(b, 2, Len(b))

\* the firings whose line went to stream s, in firing order
FiresTo(s) ==
    LET IsTo(e) == e.to = s
    IN  SelectSeq(fireLog, IsTo)

TotalLines == NumLines(out[StdoutStream]) + NumLines(out["s1"]) + NumLines(out["s2"])

\* the message a firing passed, substituted in full
Natural(e) == Subst(e.g.va[1], e.g.va[2])
HasMessage(e) == e.g.va # <<>>

\* a guard evaluation is about to decide whether it fires
Deciding ==
    IF stack = <<>> THEN FALSE
    ELSE Top.t = "guard" /\ Top.phase = "cond" /\ Ready(Top)

\* a fired guard is about to return
Returning ==
    IF stack = <<>> THEN FALSE
    ELSE Top.t = "guard" /\ Top.phase = "ret" /\ Ready(Top)

\* ----------------------------------------------------------------- claims

\* C1: every guard evaluation adds one to the depth counter on entry and takes
\* one off on exit, fired or not: the counter always equals the number of
\* evaluations entered and not yet exited, each evaluation found the counter
\* at that number when it entered, the counter is never negative and it is 0
\* when no evaluation is in progress.
C1_CounterBalanced ==
    /\ frame_cnt >= 0
    /\ frame_cnt = Active(stack)
    /\ stack = <<>> => frame_cnt = 0
    /\ \A i \in 1..Len(stack) :
          stack[i].t = "guard" => stack[i].pre = Active(SubSeq(stack, 1, i - 1))

\* a nested guard fired at depth 1, the guard around it did not fire, and
\* the outermost routine has returned normally
C1_Witness ==
    /\ stack = <<>>
    /\ result = 0
    /\ \E k \in 1..Len(fireLog) : fireLog[k].pre = 1
    /\ \E k \in 1..Len(fireLog) : fireLog[k].g.kind = "ABORT_ON_ERRNO"

\* the guard macro a chain routine is made of
ChainKind(rt) == IF rt = "abort_if" THEN "ABORT_IF" ELSE "ABORT_IF_NOT"

\* C2: a recursion of N nested guards that all fire, started at counter 0,
\* writes exactly N lines whose depths are N-1, N-2, ..., 0 in the order
\* written: the innermost guard's line, which carries the message, comes
\* first and the outermost guard's line last.  While the recursion started
\* with argument d is under way N is DepthLimit - d + 1; the lines written
\* so far are the first of that sequence, every line is there when the
\* outermost guard has fired, and they stay when the routine has returned.
C2_ChainDepths ==
    LET t == out[StdoutStream]
        n == NumLines(t)
    IN  /\ stack # <<>> =>
              LET N == DepthLimit - stack[1].arg + 1
                  tag == ChainKind(stack[1].rt)
              IN  /\ n <= N
                  /\ \A k \in 1..n :
                        /\ DepthText(Line(t, k)) = Decimal(N - k)
                        /\ k = 1 =>
                              CStr(BodyOf(Line(t, k))) =
                                  <<" ", "d", "e", "p", "t", "h", " ", "=", " ">>
                                      \o Decimal(DepthLimit)
                        /\ k > 1 => BodyOf(Line(t, k))[2] = tag
                  /\ (Len(stack) = 2 /\ stack[2].phase = "ret") => n = N
        /\ stack = <<>> =>
              \A k \in 1..n : DepthText(Line(t, k)) = Decimal(n - k)
        /\ n = Len(fireLog)

\* the recursion of the tests, started at 0, has returned: six lines
C2_Witness ==
    /\ stack = <<>>
    /\ NumLines(out[StdoutStream]) = DepthLimit + 1
    /\ fireLog[1].g.kind = "ABORT_IF_NOT"

\* C3: ABORT_IF, ABORT_IF_NOT and ABORT write one line and make the routine
\* return the value of ret exactly when their firing condition holds
\* (condition true, condition false, always); otherwise they write nothing
\* and the routine goes on with its next statement.  No other step of the
\* program writes to a sink.
C3_FiresIff ==
    [][ /\ (Deciding /\ Top.g.kind # "ABORT_ON_ERRNO") =>
              LET f == Top
                  cv == Value(f.g.cx, f.val)
                  holds == \/ (f.g.kind = "ABORT_IF" /\ cv # 0)
                           \/ (f.g.kind = "ABORT_IF_NOT" /\ cv = 0)
                           \/ f.g.kind = "ABORT"
              IN  IF holds
                  THEN /\ TotalLines' = TotalLines + 1
                       /\ Len(stack') = Len(stack)
                       /\ stack'[Len(stack)].phase = "ret"
                  ELSE /\ out' = out
                       /\ stack' = [SubSeq(stack, 1, Len(stack) - 1) EXCEPT
                              ![Len(stack) - 1] = Advance(stack[Len(stack) - 1])]
        /\ Returning =>
              /\ result' = Value(Top.g.rx, Top.val)
              /\ Len(stack') = Len(stack) - 2
        /\ ~Deciding => out' = out
      ]_vars

\* an ABORT_IF_NOT whose condition called a routine has fired and written the
\* only line so far
C3_Witness ==
    /\ stack # <<>>
    /\ Top.t = "guard"
    /\ Top.phase = "ret"
    /\ Top.g.kind = "ABORT_IF_NOT"
    /\ Top.g.cx.op = "call"
    /\ TotalLines = 1

\* the line firing number k wrote: the sink it went to holds one line for
\* each firing that went there, in firing order
LineOf(k) ==
    LET s == fireLog[k].to
        nth == Cardinality({j \in 1..k : fireLog[j].to = s})
    IN  Line(out[s], nth)

\* a written segment without the one NUL that ends it, as the test measures
\* it (size()-1, "excluding null terminator")
Unterminated(seg) ==
    IF seg = <<>> THEN seg
    ELSE IF seg[Len(seg)] = NUL THEN SubSeq(seg, 1, Len(seg) - 1)
    ELSE seg

\* C4 as stated: under a limit L set with set_message_size, the user message
\* a firing guard writes has length min(L, M) and is the first min(L, M)
\* characters of the substituted message of length M, for L below, at and
\* above M.  The terminating NUL the test allows for is not counted.
C4_Truncation ==
    \A k \in 1..Len(fireLog) :
        LET e == fireLog[k]
            seg == Unterminated(UserSegment(BodyOf(LineOf(k))))
            cut == Min(e.limit, Len(Natural(e)))
        IN  (HasMessage(e) /\ e.limit # NoLimit) =>
                /\ Len(seg) = cut
                /\ seg = SubSeq(Natural(e), 1, cut)

\* C5: the number of arguments after ret alone chooses the body.  With none
\* it is " <kind>(<cond>, <ret>);" in full under any limit, the condition
\* and its ", " dropped when the condition text is empty; with one or more
\* it is the user message (as much of it as the limit keeps) and holds none
\* of the boilerplate.
C5_BodyChoice ==
    \A k \in 1..Len(fireLog) :
        LET e == fireLog[k]
            g == e.g
            b == BodyOf(LineOf(k))
            text == CStr(b)
        IN  IF ~HasMessage(e)
            THEN b = IF g.cond = <<>>
                     THEN <<" ", g.kind, "(">> \o g.ret \o <<");">>
                     ELSE <<" ", g.kind, "(">> \o g.cond \o <<", ">> \o g.ret
                              \o <<");">>
            ELSE /\ text # <<>>
                 /\ Len(text) <= 1 + Len(Natural(e))
                 /\ text = SubSeq(<<" ">> \o Natural(e), 1, Len(text))
                 /\ \A i \in 1..Len(b) : b[i] \notin {g.kind, "(", ");", ", "}

\* ABORT with an empty format string has fired under a limit of 0, and so has
\* a guard with no message at all
C5_Witness ==
    /\ Len(fireLog) = 1
    /\ limit = 0
    /\ fireLog[1].limit = 0
    /\ fireLog[1].g.kind = "ABORT"
    /\ HasMessage(fireLog[1])
    /\ Natural(fireLog[1]) = <<>>

\* C9 as stated: with set_message_size never called the limit is 1024, so a
\* message is cut to its first 1024 characters, or written whole when it has
\* at most 1024.
C9_DefaultLimit ==
    \A k \in 1..Len(fireLog) :
        LET e == fireLog[k]
            text == CStr(UserSegment(BodyOf(LineOf(k))))
        IN  (HasMessage(e) /\ e.limit = NoLimit) =>
                text = SubSeq(Natural(e), 1, Min(DefaultBufferSize, Len(Natural(e))))

\* C6: a line is written to the stream set_ostream was given last, and to
\* standard output while none was given or the one given is null: every
\* sink holds exactly one line for each firing that happened while it was
\* the configured one, so nothing reaches a sink that has been replaced; and
\* get_ostream returns the stream the next line goes to.
C6_SinkFollowsSetOstream ==
    /\ \A s \in Streams :
          NumLines(out[s]) = Cardinality({k \in 1..Len(fireLog) : fireLog[k].to = s})
    /\ get_ostream(stream) = Target

\* a first line went to standard output before any set_ostream, a second one
\* to a stream of the host, and the sink has been reset to null since
C6_Witness ==
    /\ Len(fireLog) = 2
    /\ fireLog[1].to = StdoutStream
    /\ fireLog[2].to = "s1"
    /\ NumLines(out[StdoutStream]) = 1
    /\ NumLines(out["s1"]) = 1
    /\ stream = NullStream

\* C7: each sink holds the lines of the firings that went to it, whole and in
\* firing order: the k-th line of a sink is the line of the k-th such firing
\* from "abort[" to its body, nothing follows the last newline, and all of it
\* is flushed, in every state from the one the firing guard exits in: no
\* line is still to be written when the guard has given control back.
C7_LinesInFiringOrder ==
    \A s \in Streams :
        LET t == out[s]
            fs == FiresTo(s)
        IN  /\ NumLines(t) = Len(fs)
            /\ t # <<>> => t[Len(t)] = EOL
            /\ flushed[s] = Len(t)
            /\ \A k \in 1..Len(fs) :
                  LET l == Line(t, k)
                      g == fs[k].g
                      h == <<"abort[">> \o Decimal(fs[k].pre)
                              \o <<"]: ", g.file, ":">> \o Decimal(g.line)
                              \o <<": In '", g.func, "':", " ", g.kind, "(">>
                  IN  /\ Len(l) > Len(h)
                      /\ SubSeq(l, 1, Len(h)) = h
                      /\ l[Len(l)] \in {");", ")"}

\* an ABORT_IF at depth 0 has fired after the ABORT_IF_NOT its condition
\* reached at depth 1: two different lines, the inner one first
C7_Witness ==
    /\ Len(fireLog) = 2
    /\ fireLog[1].g.kind = "ABORT_IF_NOT"
    /\ fireLog[1].pre = 1
    /\ fireLog[2].g.kind = "ABORT_IF"
    /\ fireLog[2].pre = 0
    /\ NumLines(out[StdoutStream]) = 2

\* C8: ABORT_ON_ERRNO fires exactly when the wrapped expression is -1.  It then
\* writes one line that names ABORT_ON_ERRNO and describes errno, and the
\* routine returns the value of ret; on any other value nothing is written
\* and the routine goes on.  Either way the counter is back at the value it
\* had before the evaluation.
C8_ErrnoGuard ==
    /\ [](\A k \in 1..Len(fireLog) :
             LET e == fireLog[k]
                 b == BodyOf(LineOf(k))
                 d == StrError(e.errno)
             IN  e.g.kind = "ABORT_ON_ERRNO" =>
                     /\ Find(b, "ABORT_ON_ERRNO") > 0
                     /\ Len(b) >= Len(d)
                     /\ SubSeq(b, Len(b) - Len(d) + 1, Len(b)) = d)
    /\ [][ /\ (Deciding /\ Top.g.kind = "ABORT_ON_ERRNO") =>
                 /\ frame_cnt' = Top.pre
                 /\ IF Value(Top.g.cx, Top.val) = 0 - 1
                    THEN /\ TotalLines' = TotalLines + 1
                         /\ Len(fireLog') = Len(fireLog) + 1
                         /\ fireLog'[Len(fireLog')].errno = errno'
                         /\ Len(stack') = Len(stack)
                         /\ stack'[Len(stack)].phase = "ret"
                    ELSE /\ out' = out
                         /\ Len(stack') = Len(stack) - 1
           /\ (Returning /\ Top.g.kind = "ABORT_ON_ERRNO") =>
                 /\ result' = Value(Top.g.rx, Top.val)
                 /\ Len(stack') = Len(stack) - 2
         ]_vars

\* the ABORT_ON_ERRNO of the test has fired on sys_call() = -1 with errno 5
C8_Witness ==
    /\ stack # <<>>
    /\ Top.t = "guard"
    /\ Top.phase = "ret"
    /\ Top.g.kind = "ABORT_ON_ERRNO"
    /\ Top.g.func = "y"
    /\ errno = TestErrno
    /\ NumLines(out[StdoutStream]) = 1

\* C10: the depth in a line is the value the counter had just before the
\* entry increment of the guard that wrote it, and that value is the number of
\* guard evaluations entered and not yet exited at that entry.
C10_DepthIsEntryValue ==
    \A k \in 1..Len(fireLog) :
        /\ DepthText(LineOf(k)) = Decimal(fireLog[k].pre)
        /\ fireLog[k].pre = fireLog[k].act

\* an outer guard printed depth 0 after a guard nested in its condition had
\* fired and printed depth 1
C10_Witness ==
    /\ Len(fireLog) = 2
    /\ fireLog[1].pre = 1
    /\ fireLog[2].pre = 0
    /\ fireLog[2].g.cx.op = "call"
    /\ DepthText(LineOf(1)) = <<"1">>

\* guard frames of stk that have fired and are evaluating their return
\* expression
RetFrames(stk) ==
    {i \in 1..Len(stk) : stk[i].t = "guard" /\ stk[i].phase = "ret"}

AllDone == \A t \in Threads : thr.th[t].stk = <<>>

\* C12: frame_cnt is one variable that every thread loads and stores without
\* exclusion.  Its bookkeeping holds as long as the evaluations of the threads
\* never overlap: then every line carries the nesting depth of the thread
\* that wrote it and the counter is 0 whenever no evaluation is in progress.
\* Whatever the interleaving, the depth in a line is the shared counter as
\* read when the line was written, less one.  (That interleavings break the
\* bookkeeping is the reachability of C12_Witness.)
C12_SerialOnly ==
    /\ \A k \in 1..Len(fireLog) :
          /\ DepthText(LineOf(k)) = Decimal(fireLog[k].pre)
          /\ ~thr.mixed => fireLog[k].pre = fireLog[k].act
    /\ (~thr.mixed /\ AllDone) => frame_cnt = 0
    /\ ~thr.mixed =>
          frame_cnt \in {Len(thr.th[t].stk) : t \in Threads}
                          \cup {Len(thr.th[t].stk) - 1 : t \in Threads}

\* evaluations of the two threads interleaved: every evaluation is over, the
\* counter is not 0, and a line carries a depth that is not the nesting depth
\* of the thread that wrote it
C12_Witness ==
    /\ AllDone
    /\ thr.mixed
    /\ frame_cnt # 0
    /\ \E k \in 1..Len(fireLog) :
          /\ fireLog[k].by \in Threads
          /\ DepthText(LineOf(k)) # Decimal(fireLog[k].act)

\* the firing passed arguments after the format
HasArgs(e) == IF HasMessage(e) THEN e.g.va[2] # <<>> ELSE FALSE

\* C13 as stated: a guard that fires has evaluated its condition once (ABORT
\* has none), its return expression once, and each argument after the format
\* once, and a guard that does not fire has evaluated no argument: the i of
\* routine "k", which every evaluation of the argument i++ adds one to, is
\* the number of firings so far, and the line of a firing shows the i it
\* found.
C13_EvaluatedOnce ==
    /\ \A k \in 1..Len(fireLog) :
          LET e == fireLog[k]
          IN  /\ e.evals.cond = (IF e.g.kind = "ABORT" THEN 0 ELSE 1)
              /\ e.evals.ret = 1
              /\ HasArgs(e) => e.evals.args = 1
    /\ (stack # <<>> /\ stack[1].rt = "k") =>
          /\ stack[1].arg = Len(fireLog)
          /\ \A k \in 1..Len(fireLog) :
                limit = NoLimit =>
                    CStr(BodyOf(LineOf(k))) =
                        <<" ", "i", " ", "=", " ">> \o Decimal(k - 1)

====
